---- MODULE Spec2Model ----
(***************************************************************************)
(* Lot ledger and trade execution core of the trading service.            *)
(*                                                                         *)
(* The model follows src/trading-service/main.py (process_trade and       *)
(* on_message_callback), src/trading-service/utils.py (ledger statements, *)
(* control-state reads, TradingClient) and the control-state store of     *)
(* src/management-service/routes.py.                                       *)
(*                                                                         *)
(* Units: money is counted in cents (1/100 USDT), quantities in           *)
(* hundredths of a coin, time in seconds.  Python floats are modelled as  *)
(* exact rationals over these units.                                      *)
(***************************************************************************)
EXTENDS Integers, Sequences, FiniteSets, TLC

\* ------------------------------------------------------------------ bounds
MaxSignals == 2          \* messages the parser publishes in one run
MaxOperatorCalls == 4    \* control-state set requests the operator issues
MaxOperatorCallsConc == 3 \* the same, in the runs with two consumers
MaxOperatorCallsCrash == 3 \* the same, in the runs with a dying consumer
MaxCrashes == 1          \* consumer crashes in one run
MaxGatewayCalls == 2     \* _place_order invocations in one run
MaxTrades == 1           \* execute_trade invocations in one run
MaxLedgerCalls == 3      \* ledger statements run on their own in one run
MaxControlCalls == 3     \* control-state requests of any client in one run
MaxEvaluations == 2      \* calc_qty_symbol calls on the same readings
MaxStatusCalls == 3      \* set_system_status requests in one run

\* ------------------------------------------------------- program constants
BoundActualSignalSec == 1800     \* BOUND_ACTUAL_SIGNAL 0.5 h * 60 * 60
SellBoundSec == 86400            \* 24 * 60 * 60
InitPriceLimit == 300            \* app_state["price_limit"] = 3.
MaxRetries == 3                  \* max_retries: int = 3
Null == -1                       \* Python None in a numeric field

\* -------------------------------------------------------------- universes
Workers == {1, 2}
Symbols == {"AUSDT", "BUSDT"}
Token == "secret"                \* MANAGEMENT_API_TOKEN
ApiKeys == {Token, "wrong"}
Statuses == {"enable", "sell", "disable"}
PriceLimits == {300, 500}
FakeBalances == {0, 800}
NumLots == {0, 1, 2}
Prices == {200, 400}
CoinBalances == {0, 150}

\* Instrument limits the exchange reports (get_instruments_info): the same
\* lotSizeFilter for every symbol of the model.
LotSizeFilter ==
    [maxMktOrderQty |-> 300, minOrderQty |-> 100,
     qtyStep |-> <<"1">>, minNotionalValue |-> 1]

\* The signals the parser publishes: a JSON body that decodes or not, and the
\* keys process_trade reads.  price_buy = Null/0 is "absent or falsy".
Signal(json_ok, symbol, price_buy, price_sell, age) ==
    [json_ok |-> json_ok, symbol |-> symbol, price_buy |-> price_buy,
     price_sell |-> price_sell, age |-> age]

BuySignals == {Signal(TRUE, s, p, Null, 600) : s \in Symbols, p \in Prices}
SellSignals == {Signal(TRUE, s, Null, p, 600) : s \in Symbols, p \in Prices}
StaleSignals ==
    { Signal(TRUE, "AUSDT", 200, Null, 1860),       \* a buy 31 minutes old
      Signal(TRUE, "AUSDT", Null, 200, 86460) }     \* a sell 24 h 1 min old
MalformedSignals ==
    { Signal(FALSE, "", Null, Null, Null),          \* undecodable JSON
      Signal(TRUE, "", 200, Null, 600),             \* no symbol
      Signal(TRUE, "AUSDT", 200, Null, Null),       \* no timestamp
      Signal(TRUE, "AUSDT", Null, Null, 600) }      \* no price at all
Signals == BuySignals \cup SellSignals \cup StaleSignals \cup MalformedSignals

NoMsg == [id |-> 0, body |-> Signal(FALSE, "", Null, Null, Null)]

NoLocals ==
    [symbol |-> "", action |-> "", price |-> Null, old_balance |-> Null,
     system_status |-> "", symbols_active_lots |-> {},
     num_available_lots |-> Null, coin_balance |-> Null,
     fake_balance |-> Null, qty |-> Null, placed |-> FALSE,
     new_balance |-> Null, old_fake_balance |-> Null]

VARIABLES
    workers,        \* consumers running on_message_callback
    crashes,        \* times a consumer process has died
    app_state,      \* management-service control state
    operator_calls, \* control-state requests that may still be issued
    http,           \* the last control-state request's key and its response
    active_lots,    \* committed rows of table active_lots, in insert order
    history_lots,   \* committed rows of table history_lots, in insert order
    real_balance,   \* exchange USDT wallet balance
    orders,         \* market orders the exchange executed, in order
    lot_size_filter, \* lotSizeFilter the exchange reports for the symbols
    queue,          \* ready messages of the RabbitMQ queue
    published,      \* messages published so far
    msg,            \* msg[w]: the delivery worker w is processing
    unacked,        \* unacked[w]: the broker holds msg[w] as unacknowledged
    pc,             \* pc[w]: worker w's position in on_message_callback
    loc,            \* loc[w]: process_trade's local variables
    outcome,        \* outcome[w]: how w's current/last decision ended
    gw_tool,        \* the BybitTradingTool in use: its file, its attributes
    gw_leverage,    \* gw_leverage[s]: leverage the exchange holds for s
    gw_pc,          \* position inside BybitTradingTool._place_order
    gw_args,        \* arguments of the running _place_order
    gw_response,    \* what _set_leverage's request ended with
    gw_requests,    \* requests the exchange received from the tool
    gw_result,      \* what the last _place_order returned
    gw_calls,       \* _place_order invocations so far
    ta_pc,          \* position inside TradingAgent.execute_trade
    ta_order,       \* order_data of the running execute_trade
    ta_retries,     \* retries of the running _execute_order_with_retry
    ta_outcomes,    \* how each place_order attempt of the trade ended
    ta_callbacks,   \* execution_callback invocations of the trade
    ta_status,      \* how the last execute_trade ended
    ta_trades,      \* execute_trade invocations so far
    db_call,        \* the last ledger statement run on its own, its result
    db_calls,       \* ledger statements run on their own so far
    rs_input,       \* what calc_qty_symbol's reads return
    rs_results,     \* what the calls of calc_qty_symbol ended with
    bc_pc,          \* position inside BalanceControlAgent's signal handler
    bc_signal,      \* trade_signal handed to trading_callback
    bc_calls,       \* trading_callback invocations so far
    bc_returned,    \* what the last awaited trading_callback gave back
    bc_records      \* ledger writes the agent has made, in order

gateway_vars == <<gw_tool, gw_leverage, gw_pc, gw_args, gw_response,
                  gw_requests, gw_result, gw_calls>>

agent_vars == <<ta_pc, ta_order, ta_retries, ta_outcomes, ta_callbacks,
                ta_status, ta_trades>>

core_vars == <<workers, crashes, app_state, operator_calls, http, active_lots,
               history_lots, real_balance, orders, lot_size_filter, queue,
               published, msg, unacked, pc, loc, outcome>>

ledger_vars == <<db_call, db_calls>>

resolver_vars == <<rs_input, rs_results>>

balance_vars == <<bc_pc, bc_signal, bc_calls, bc_returned, bc_records>>

\* What the exchange tool never touches, the trading agent set aside.
trading_vars == <<core_vars, ledger_vars, resolver_vars, balance_vars>>

vars == <<trading_vars, gateway_vars, agent_vars>>

\* What no step of the trading service changes.
side_vars == <<gateway_vars, agent_vars, ledger_vars, resolver_vars,
               balance_vars, lot_size_filter>>

\* What no step of a healthy consumer changes.
fixed_vars == <<side_vars, workers, crashes>>

ctl_vars == <<app_state, operator_calls, http>>
db_vars == <<active_lots, history_lots>>
ex_vars == <<real_balance, orders>>
mq_vars == <<queue, published, msg, unacked>>

\* ------------------------------------------------------------ pure helpers
RECURSIVE Pow10(_)
Pow10(n) == IF n = 0 THEN 1 ELSE 10 * Pow10(n - 1)

QtyScale == Pow10(2)

\* Python's round(): to the nearest, ties to the even neighbour.
RoundHalfEven(num, den) ==
    LET q == num \div den
        r == num % den
    IN  IF 2 * r < den THEN q
        ELSE IF 2 * r > den THEN q + 1
        ELSE IF q % 2 = 0 THEN q ELSE q + 1

\* step_qty.split('.'): 0 when there is no '.', otherwise the length of the
\* part between the first '.' and the next one (or the end).
Precision(step_qty) ==
    LET dots == {i \in 1..Len(step_qty) : step_qty[i] = "."}
    IN  IF dots = {} THEN 0
        ELSE LET first == CHOOSE i \in dots : \A j \in dots : i <= j
                 later == {j \in dots : j > first}
                 stop == IF later = {} THEN Len(step_qty) + 1
                         ELSE CHOOSE j \in later : \A k \in later : j <= k
             IN  stop - first - 1

\* A quantity that is rounded and neither zeroed nor capped.
CalcQtyUnchecked(fake_balance, num_available_lots, price, symbol_wallet_balance, info) ==
    LET unit == Pow10(2 - Precision(info.qtyStep))
    IN  unit * RoundHalfEven(QtyScale * fake_balance
                             - symbol_wallet_balance * num_available_lots * price,
                             num_available_lots * price * unit)

\* A quantity that depends on how often it has been asked for.
CalcQtyCounting(fake_balance, num_available_lots, price, symbol_wallet_balance, info) ==
    info.minOrderQty * (1 + Len(rs_results))

\* TradingClient.calc_qty_symbol, lines 435-444, on the values it has read.
\* fake_balance, price in cents; quantities in hundredths.
CalcQty(fake_balance, num_available_lots, price, symbol_wallet_balance, info) ==
    LET precision_qty == Precision(info.qtyStep)
        unit == Pow10(2 - precision_qty)
        num == QtyScale * fake_balance
               - symbol_wallet_balance * num_available_lots * price
        den == num_available_lots * price
        qty == unit * RoundHalfEven(num, den * unit)
    IN  IF qty * price < info.minNotionalValue * QtyScale * QtyScale
           /\ qty < info.minOrderQty
        THEN 0
        ELSE IF qty > info.maxMktOrderQty THEN info.maxMktOrderQty
        ELSE qty

\* Value of an executed order in cents.
Notional(qty, price) == (qty * price) \div QtyScale

SymbolsOf(rows) == {rows[i].symbol : i \in 1..Len(rows)}
CountRows(rows, s) == Cardinality({i \in 1..Len(rows) : rows[i].symbol = s})

RECURSIVE DeleteRows(_, _)
DeleteRows(rows, s) ==
    IF rows = <<>> THEN <<>>
    ELSE IF Head(rows).symbol = s THEN DeleteRows(Tail(rows), s)
    ELSE <<Head(rows)>> \o DeleteRows(Tail(rows), s)

\* ------------------------------------------------- control state (operator)
\* A validate_token that lets every key through.
ValidateTokenAny(api_key) == TRUE

\* validate_token: the request is let through iff the key is the secret.
ValidateToken(api_key) == api_key = Token

NoResponse == [api_key |-> "", status |-> 0, data |-> <<>>]

\* The status of a request whose validate_token raised HTTPException(403):
\* a handler that calls it inside try/except Exception catches it and
\* raises HTTPException(500) instead.
Rejection(in_try) == IF in_try THEN 500 ELSE 403

\* The response: the handler's return value under status 200, or the
\* rejection, which carries no value.
Response(api_key, in_try, data) ==
    IF ValidateToken(api_key)
    THEN [api_key |-> api_key, status |-> 200, data |-> data]
    ELSE [api_key |-> api_key, status |-> Rejection(in_try), data |-> <<>>]

\* A set endpoint: validate_token inside try/except Exception, so that the
\* 403 it raises is caught and answered as a 500; the value is stored only
\* after the token check.  The body of the answer, a message and the echo
\* of the value, is kept as the mark "set".
SetEndpoint(field, value, api_key) ==
    /\ operator_calls > 0
    /\ operator_calls' = operator_calls - 1
    /\ IF ValidateToken(api_key)
       THEN app_state' = [app_state EXCEPT ![field] = value]
       ELSE UNCHANGED app_state
    /\ http' = Response(api_key, TRUE, <<"set">>)
    /\ UNCHANGED <<fixed_vars, db_vars, ex_vars, mq_vars, pc, loc, outcome>>

\* A get endpoint: the value of the field after validate_token.
GetEndpoint(field, api_key, in_try) ==
    /\ operator_calls > 0
    /\ operator_calls' = operator_calls - 1
    /\ http' = Response(api_key, in_try, <<app_state[field]>>)
    /\ UNCHANGED <<fixed_vars, app_state, db_vars, ex_vars, mq_vars, pc, loc,
                   outcome>>

api_get_system_status(api_key) ==
    GetEndpoint("enable_trading_system", api_key, TRUE)

api_get_fake_balance(api_key) == GetEndpoint("fake_balance", api_key, FALSE)

api_get_price_limit(api_key) == GetEndpoint("price_limit", api_key, FALSE)

api_get_num_available_lots(api_key) ==
    GetEndpoint("num_available_lots", api_key, FALSE)

api_set_system_status(system_status, api_key) ==
    SetEndpoint("enable_trading_system", system_status, api_key)

api_set_fake_balance(fake_balance, api_key) ==
    SetEndpoint("fake_balance", fake_balance, api_key)

api_set_price_limit(price_limit, api_key) ==
    SetEndpoint("price_limit", price_limit, api_key)

api_set_num_available_lots(num_available_lots, api_key) ==
    SetEndpoint("num_available_lots", num_available_lots, api_key)

\* ------------------------------------------------------------------ queue
\* The parser service publishes one message per signal.
Publish(sig) ==
    /\ published < MaxSignals
    /\ queue = <<>>
    /\ published' = published + 1
    /\ queue' = Append(queue, [id |-> published + 1, body |-> sig])
    /\ UNCHANGED <<fixed_vars, ctl_vars, db_vars, ex_vars, msg, unacked,
                   pc, loc, outcome>>

\* A consumer whose deliveries the broker takes as acknowledged at once.
auto_ack_on == TRUE

\* basic_consume(..., auto_ack=False).
auto_ack == FALSE

\* basic_consume delivers the head of the queue to an idle consumer.
Receive(w) ==
    /\ w \in workers
    /\ pc[w] = "idle"
    /\ queue # <<>>
    /\ msg' = [msg EXCEPT ![w] = Head(queue)]
    /\ unacked' = [unacked EXCEPT ![w] = ~auto_ack]
    /\ queue' = Tail(queue)
    /\ pc' = [pc EXCEPT ![w] = "validate"]
    /\ UNCHANGED <<fixed_vars, ctl_vars, db_vars, ex_vars, published, loc,
                   outcome>>

\* --------------------------------------------- control flow of a decision
\* A decision goes on to its next statement.
Goto(w, label) ==
    /\ pc' = [pc EXCEPT ![w] = label]
    /\ UNCHANGED outcome

\* What stays of the locals once process_trade has ended: the decision taken
\* (the rest is dead, and dropped).
Kept(l) ==
    [NoLocals EXCEPT !.symbol = l.symbol, !.action = l.action,
                     !.price = l.price, !.system_status = l.system_status,
                     !.qty = l.qty, !.placed = l.placed]

\* A process_trade whose handler at line 123 raises the exception again.
ReturnRaising(w, how) ==
    /\ pc' = [pc EXCEPT ![w] = "nack"]
    /\ outcome' = [outcome EXCEPT ![w] = how]
    /\ loc' = [loc EXCEPT ![w] = Kept(loc[w])]

\* process_trade returns (a return statement, the end of the function, or an
\* exception caught at line 123): on_message_callback goes on to basic_ack.
Return(w, how) ==
    /\ pc' = [pc EXCEPT ![w] = "ack"]
    /\ outcome' = [outcome EXCEPT ![w] = how]
    /\ loc' = [loc EXCEPT ![w] = Kept(loc[w])]

\* An exception leaves process_trade (raised outside its try block):
\* on_message_callback goes to basic_nack.
Raise(w, how) ==
    /\ pc' = [pc EXCEPT ![w] = "nack"]
    /\ outcome' = [outcome EXCEPT ![w] = how]
    /\ loc' = [loc EXCEPT ![w] = Kept(loc[w])]

At(w, label) == w \in workers /\ pc[w] = label

\* A staleness test that gives a buy the sell's 24 hours.
OutdatedAsSell(action, delta_time) == delta_time > SellBoundSec

\* Lines 51 and 54: the two staleness tests.
Outdated(action, delta_time) ==
    \/ action = "buy" /\ delta_time > BoundActualSignalSec
    \/ action = "sell" /\ delta_time > SellBoundSec

\* Lines 40-56: decode, derive action and price, reject malformed and stale.
Validate(w) ==
    /\ At(w, "validate")
    /\ LET m == msg[w].body
           action == IF m.price_buy \notin {Null, 0} THEN "buy" ELSE "sell"
           price == IF action = "buy" THEN m.price_buy ELSE m.price_sell
           delta_time == m.age
       IN  IF ~m.json_ok
           THEN Raise(w, "malformed")
           ELSE IF m.symbol = ""
           THEN Return(w, "invalid")
           ELSE IF m.age = Null
           THEN Raise(w, "malformed")
           ELSE IF Outdated(action, delta_time)
           THEN Return(w, "stale")
           ELSE /\ loc' = [loc EXCEPT ![w].symbol = m.symbol,
                                      ![w].action = action,
                                      ![w].price = price]
                /\ Goto(w, "price_limit")
    /\ UNCHANGED <<fixed_vars, ctl_vars, db_vars, ex_vars, mq_vars>>

\* Line 58: price > get_price_limit(...), for either action.
AbovePriceLimit(price, price_limit) == price > price_limit

PriceGate(w) ==
    /\ At(w, "price_limit")
    /\ \E ok \in BOOLEAN :
         IF ~ok \/ loc[w].price = Null
         THEN Raise(w, "raised")
         ELSE IF AbovePriceLimit(loc[w].price, app_state.price_limit)
         THEN Return(w, "high_price")
         ELSE Goto(w, "old_balance") /\ UNCHANGED loc
    /\ UNCHANGED <<fixed_vars, ctl_vars, db_vars, ex_vars, mq_vars>>

\* Line 62: old_balance = trading_client.get_real_balance().
GetOldBalance(w) ==
    /\ At(w, "old_balance")
    /\ \E ok \in BOOLEAN :
         IF ~ok
         THEN Raise(w, "raised")
         ELSE /\ loc' = [loc EXCEPT ![w].old_balance = real_balance]
              /\ Goto(w, "system_status")
    /\ UNCHANGED <<fixed_vars, ctl_vars, db_vars, ex_vars, mq_vars>>

\* What a call that raised has in place of its value.
Raised == "raised"

\* A status read that answers 'enable' when the store cannot be reached.
get_system_status_default_enable(ok, state) ==
    IF ok THEN state.enable_trading_system ELSE "enable"

\* get_system_status: the store's value; a failed request is logged and
\* raised again.
get_system_status(ok, state) ==
    IF ok THEN state.enable_trading_system ELSE Raised

\* Lines 64-69: open the connection (a failure leaves process_trade), then
\* fetch the system status inside the try block.
GetSystemStatus(w) ==
    /\ At(w, "system_status")
    /\ \E connected \in BOOLEAN, ok \in BOOLEAN :
         LET system_status == get_system_status(ok, app_state)
         IN  IF ~connected
             THEN Raise(w, "raised")
             ELSE IF system_status = Raised
             THEN Return(w, "error_control")
             ELSE /\ loc' = [loc EXCEPT ![w].system_status = system_status]
                  /\ Goto(w, "symbols_active_lots")
    /\ UNCHANGED <<fixed_vars, ctl_vars, db_vars, ex_vars, mq_vars>>

\* A dispatch that forgets the system status.
BranchIgnoringStatus(action, system_status) == action

\* Lines 72 and 97: which branch of process_trade a decision takes.
Branch(action, system_status) ==
    IF action = "buy" /\ system_status = "enable" THEN "buy"
    ELSE IF action = "sell" /\ system_status \in {"enable", "sell"} THEN "sell"
    ELSE "none"

\* An existence check that always finds a lot.
HasOpenLotAlways(symbols_active_lots, symbol) == TRUE

\* An existence check that never finds the lot.
HasOpenLotNever(symbols_active_lots, symbol) == FALSE

\* symbol in symbols_active_lots (lines 81 and 99).
HasOpenLot(symbols_active_lots, symbol) == symbol \in symbols_active_lots

\* Lines 70, 72, 97-101: read the open symbols, take the branch; the sell
\* branch returns at once when the symbol has no open lot.
GetSymbolsActiveLots(w) ==
    /\ At(w, "symbols_active_lots")
    /\ \E ok \in BOOLEAN :
         LET symbols == SymbolsOf(active_lots)
             branch == Branch(loc[w].action, loc[w].system_status)
         IN  IF ~ok
             THEN Return(w, "error_ledger")
             ELSE IF branch = "buy"
             THEN /\ loc' = [loc EXCEPT ![w].symbols_active_lots = symbols]
                  /\ Goto(w, "num_available_lots")
             ELSE IF branch = "sell"
             THEN IF ~HasOpenLot(symbols, loc[w].symbol)
                  THEN Return(w, "not_bought")
                  ELSE /\ loc' = [loc EXCEPT ![w].symbols_active_lots = symbols]
                       /\ Goto(w, "qty_symbol")
             ELSE Return(w, "inactive")
    /\ UNCHANGED <<fixed_vars, ctl_vars, db_vars, ex_vars, mq_vars>>

\* A slot gate that lets every buy through.
LotsExceededNever(num_active_lots, num_available_lots) == FALSE

\* Line 77: num_active_lots >= num_available_lots.
LotsExceeded(num_active_lots, num_available_lots) ==
    num_active_lots >= num_available_lots

\* Line 74: the slot count, fetched from the control state.
GetNumAvailableLots(w) ==
    /\ At(w, "num_available_lots")
    /\ \E ok \in BOOLEAN :
         IF ~ok
         THEN Return(w, "error_control")
         ELSE /\ loc' = [loc EXCEPT ![w].num_available_lots =
                                        app_state.num_available_lots]
              /\ Goto(w, "count_lots")
    /\ UNCHANGED <<fixed_vars, ctl_vars, db_vars, ex_vars, mq_vars>>

\* Lines 75-83: count the open lots, then the two buy gates.
GetCountLots(w) ==
    /\ At(w, "count_lots")
    /\ \E ok \in BOOLEAN :
         IF ~ok
         THEN Return(w, "error_ledger")
         ELSE IF LotsExceeded(Len(active_lots), loc[w].num_available_lots)
         THEN Return(w, "lots_exceeded")
         ELSE IF HasOpenLot(loc[w].symbols_active_lots, loc[w].symbol)
         THEN Return(w, "already_bought")
         ELSE Goto(w, "coin_info") /\ UNCHANGED loc
    /\ UNCHANGED <<fixed_vars, ctl_vars, db_vars, ex_vars, mq_vars>>

\* Lines 424-425 (make_trade -> calc_qty_symbol): the wallet balance of the
\* coin and the instrument's lot size filter, both read from the exchange.
\* The coin wallet is not moved by the linear-contract orders of this
\* service, so its balance is an input.
GetCoinInfo(w) ==
    /\ At(w, "coin_info")
    /\ \E ok \in BOOLEAN, symbol_wallet_balance \in CoinBalances :
         IF ~ok
         THEN Return(w, "error_trade")
         ELSE /\ loc' = [loc EXCEPT ![w].coin_balance = symbol_wallet_balance]
              /\ Goto(w, "calc_fake_balance")
    /\ UNCHANGED <<fixed_vars, ctl_vars, db_vars, ex_vars, mq_vars>>

\* Line 432: fake_balance = self.get_fake_balance().
CalcGetFakeBalance(w) ==
    /\ At(w, "calc_fake_balance")
    /\ \E ok \in BOOLEAN :
         IF ~ok
         THEN Return(w, "error_trade")
         ELSE /\ loc' = [loc EXCEPT ![w].fake_balance = app_state.fake_balance]
              /\ Goto(w, "calc_qty")
    /\ UNCHANGED <<fixed_vars, ctl_vars, db_vars, ex_vars, mq_vars>>

\* Lines 433-444: the resolver's own read of the slot count, then the
\* quantity; a zero slot count is a ZeroDivisionError.
CalcQtySymbol(w) ==
    /\ At(w, "calc_qty")
    /\ \E ok \in BOOLEAN :
         LET num_available_lots == app_state.num_available_lots
         IN  IF ~ok \/ num_available_lots = 0
             THEN Return(w, "error_trade")
             ELSE /\ loc' = [loc EXCEPT ![w].qty =
                               CalcQty(loc[w].fake_balance, num_available_lots,
                                       loc[w].price, loc[w].coin_balance,
                                       lot_size_filter)]
                  /\ Goto(w, "place_order")
    /\ UNCHANGED <<fixed_vars, ctl_vars, db_vars, ex_vars, mq_vars>>

\* A sell quantity taken from the instrument's limits instead of the lot.
get_qty_symbol_from_limits(rows, symbol) ==
    IF symbol \in SymbolsOf(rows) THEN {LotSizeFilter.minOrderQty} ELSE {}

\* get_qty_symbol: SELECT qty FROM active_lots WHERE symbol, first row
\* fetched; without ORDER BY any matching row may come first.
get_qty_symbol(rows, symbol) ==
    {rows[i].qty : i \in {j \in 1..Len(rows) : rows[j].symbol = symbol}}

\* Line 103: SELECT qty ... WHERE symbol; fetchone() of no row is None and
\* None[0] a TypeError.
GetQtySymbol(w) ==
    /\ At(w, "qty_symbol")
    /\ \E ok \in BOOLEAN :
         LET qtys == get_qty_symbol(active_lots, loc[w].symbol)
         IN  IF ~ok \/ qtys = {}
             THEN Return(w, "error_ledger")
             ELSE \E qty \in qtys :
                    /\ loc' = [loc EXCEPT ![w].qty = qty]
                    /\ Goto(w, "place_order")
    /\ UNCHANGED <<fixed_vars, ctl_vars, db_vars, ex_vars, mq_vars>>

\* The exchange executes a market order: it moves the USDT wallet by the
\* order's value.  An order of no positive quantity is refused.
OrderRow(side, symbol, qty, price) ==
    [action |-> side, symbol |-> symbol, qty |-> qty, price |-> price]

Execute(side, qty, price) ==
    IF side = "buy" THEN real_balance - Notional(qty, price)
    ELSE real_balance + Notional(qty, price)

\* A make_trade whose failure is swallowed: the ledger update follows anyway.
AfterTradeIgnoringFailure(action, placed) ==
    IF action = "buy" THEN "commit_buy" ELSE "commit_sell"

\* Where process_trade goes after make_trade: line 93 after a placed buy,
\* line 113 after a placed sell, line 123 when make_trade raised.
AfterTrade(action, placed) ==
    IF ~placed THEN "error"
    ELSE IF action = "buy" THEN "commit_buy" ELSE "commit_sell"

\* make_trade, lines 463-482: place_order with the resolved quantity.
PlaceOrder(w) ==
    /\ At(w, "place_order")
    /\ \E ok \in (IF loc[w].qty > 0 THEN BOOLEAN ELSE {FALSE}) :
         LET next == AfterTrade(loc[w].action, ok)
         IN  /\ IF ok
                THEN /\ orders' = Append(orders,
                           OrderRow(loc[w].action, loc[w].symbol, loc[w].qty,
                                    loc[w].price))
                     /\ real_balance' = Execute(loc[w].action, loc[w].qty,
                                                loc[w].price)
                ELSE UNCHANGED ex_vars
             /\ IF next = "error"
                THEN Return(w, "error_trade")
                ELSE /\ loc' = [loc EXCEPT ![w].placed = ok]
                     /\ Goto(w, next)
    /\ UNCHANGED <<fixed_vars, ctl_vars, db_vars, mq_vars>>

LotRow(symbol, qty, price) == [symbol |-> symbol, qty |-> qty, price |-> price]
HistoryRow(action, symbol, qty, price) ==
    [action |-> action, symbol |-> symbol, qty |-> qty, price |-> price]

\* A create_lot that inserts nothing.
create_lot_nothing(rows, symbol, qty, price) == rows

\* create_lot: a plain INSERT (the table has no uniqueness constraint).
create_lot(rows, symbol, qty, price) == Append(rows, LotRow(symbol, qty, price))
\* A create_history_lot that inserts nothing.
create_history_lot_nothing(rows, action, symbol, qty, price) == rows

\* create_history_lot.
create_history_lot(rows, action, symbol, qty, price) ==
    Append(rows, HistoryRow(action, symbol, qty, price))
\* delete_lot: DELETE ... WHERE symbol, whatever number of rows match.
delete_lot(rows, symbol) == DeleteRows(rows, symbol)

\* A capital update that follows a buy as well.
AfterCommitAlwaysCapital(action) == "new_balance"

\* What follows the commit: the buy branch ends at line 95, the sell branch
\* goes on to the capital update of lines 117-121.
AfterCommit(action) == IF action = "sell" THEN "new_balance" ELSE "done"

\* Lines 93-95: one transaction; a fault in it is caught at line 123 and the
\* connection is closed without a commit.
CommitBuy(w) ==
    /\ At(w, "commit_buy")
    /\ \E ok \in BOOLEAN :
         IF ok
         THEN /\ active_lots' = create_lot(active_lots, loc[w].symbol,
                                           loc[w].qty, loc[w].price)
              /\ history_lots' = create_history_lot(history_lots, loc[w].action,
                                    loc[w].symbol, loc[w].qty, loc[w].price)
              /\ IF AfterCommit(loc[w].action) = "done"
                 THEN Return(w, "done_buy")
                 ELSE Goto(w, AfterCommit(loc[w].action)) /\ UNCHANGED loc
         ELSE /\ UNCHANGED db_vars
              /\ Return(w, "error_ledger")
    /\ UNCHANGED <<fixed_vars, ctl_vars, ex_vars, mq_vars>>

\* Lines 113-115.
CommitSell(w) ==
    /\ At(w, "commit_sell")
    /\ \E ok \in BOOLEAN :
         IF ok
         THEN /\ active_lots' = delete_lot(active_lots, loc[w].symbol)
              /\ history_lots' = create_history_lot(history_lots, loc[w].action,
                                    loc[w].symbol, loc[w].qty, loc[w].price)
              /\ IF AfterCommit(loc[w].action) = "done"
                 THEN Return(w, "done_sell")
                 ELSE Goto(w, AfterCommit(loc[w].action)) /\ UNCHANGED loc
         ELSE /\ UNCHANGED db_vars
              /\ Return(w, "error_ledger")
    /\ UNCHANGED <<fixed_vars, ctl_vars, ex_vars, mq_vars>>

\* Line 117.
GetNewBalance(w) ==
    /\ At(w, "new_balance")
    /\ \E ok \in BOOLEAN :
         IF ~ok
         THEN Return(w, "error_capital")
         ELSE /\ loc' = [loc EXCEPT ![w].new_balance = real_balance]
              /\ Goto(w, "old_fake_balance")
    /\ UNCHANGED <<fixed_vars, ctl_vars, db_vars, ex_vars, mq_vars>>

\* Line 118.
GetOldFakeBalance(w) ==
    /\ At(w, "old_fake_balance")
    /\ \E ok \in BOOLEAN :
         IF ~ok
         THEN Return(w, "error_capital")
         ELSE /\ loc' = [loc EXCEPT ![w].old_fake_balance = app_state.fake_balance]
              /\ Goto(w, "set_fake_balance")
    /\ UNCHANGED <<fixed_vars, ctl_vars, db_vars, ex_vars, mq_vars>>

\* Lines 119-120.
NewFakeBalance(old_fake_balance, new_balance, old_balance) ==
    old_fake_balance + (new_balance - old_balance)

\* Line 121.
SetFakeBalance(w) ==
    /\ At(w, "set_fake_balance")
    /\ \E ok \in BOOLEAN :
         IF ok
         THEN /\ app_state' = [app_state EXCEPT !.fake_balance =
                    NewFakeBalance(loc[w].old_fake_balance, loc[w].new_balance,
                                   loc[w].old_balance)]
              /\ Return(w, IF loc[w].action = "sell" THEN "done_sell"
                            ELSE "done_buy")
         ELSE /\ UNCHANGED app_state
              /\ Return(w, "error_capital")
    /\ UNCHANGED <<fixed_vars, operator_calls, http, db_vars, ex_vars, mq_vars>>

\* The broker puts a delivery it still holds as unacknowledged back at the
\* head of the queue.
Requeue(w) == IF unacked[w] THEN <<msg[w]>> \o queue ELSE queue

\* Line 145: basic_ack after process_trade returned.
Ack(w) ==
    /\ At(w, "ack")
    /\ pc' = [pc EXCEPT ![w] = "idle"]
    /\ msg' = [msg EXCEPT ![w] = NoMsg]
    /\ unacked' = [unacked EXCEPT ![w] = FALSE]
    /\ loc' = [loc EXCEPT ![w] = NoLocals]
    /\ outcome' = [outcome EXCEPT ![w] = "none"]
    /\ UNCHANGED <<fixed_vars, ctl_vars, db_vars, ex_vars, queue, published>>

\* Line 148: basic_nack (requeue defaults to true) after an exception.
Nack(w) ==
    /\ At(w, "nack")
    /\ pc' = [pc EXCEPT ![w] = "idle"]
    /\ queue' = Requeue(w)
    /\ msg' = [msg EXCEPT ![w] = NoMsg]
    /\ unacked' = [unacked EXCEPT ![w] = FALSE]
    /\ loc' = [loc EXCEPT ![w] = NoLocals]
    /\ outcome' = [outcome EXCEPT ![w] = "none"]
    /\ UNCHANGED <<fixed_vars, ctl_vars, db_vars, ex_vars, published>>

\* The consumer process dies while it holds a delivery (lines 186-191: the
\* channel of start_consuming closes); the broker requeues what the channel
\* had not acknowledged, and the restarted consumer is idle.
Crash(w) ==
    /\ w \in workers
    /\ pc[w] # "idle"
    /\ crashes < MaxCrashes
    /\ crashes' = crashes + 1
    /\ pc' = [pc EXCEPT ![w] = "idle"]
    /\ queue' = Requeue(w)
    /\ msg' = [msg EXCEPT ![w] = NoMsg]
    /\ unacked' = [unacked EXCEPT ![w] = FALSE]
    /\ loc' = [loc EXCEPT ![w] = NoLocals]
    /\ outcome' = [outcome EXCEPT ![w] = "none"]
    /\ UNCHANGED <<side_vars, workers, ctl_vars, db_vars, ex_vars,
                   published>>

\* ------------------------------------------- quantity resolver alone
\* calc_qty_symbol on given readings of the control state and the exchange.
\* It only reads: the coin balance and the instrument's lotSizeFilter from
\* the exchange, fake_balance and num_available_lots from the management
\* service.
ScenarioFilter ==
    [maxMktOrderQty |-> 10000, minOrderQty |-> 1,
     qtyStep |-> <<"0", ".", "0", "1">>, minNotionalValue |-> 10]
HalfStepFilter ==
    [maxMktOrderQty |-> 250, minOrderQty |-> 50,
     qtyStep |-> <<"0", ".", "5">>, minNotionalValue |-> 5]
ResolverFilters == {LotSizeFilter, ScenarioFilter, HalfStepFilter}
ResolverCapitals == {0, 800, 100000}
ResolverLots == {0, 1, 2, 5}
ResolverPrices == {200, 10000}

Readings(fake_balance, num_available_lots, price, symbol_wallet_balance, info) ==
    [fake_balance |-> fake_balance, num_available_lots |-> num_available_lots,
     price |-> price, symbol_wallet_balance |-> symbol_wallet_balance,
     info |-> info]

ResolverAtRest ==
    /\ rs_input = Readings(0, 0, 0, 0, LotSizeFilter)
    /\ rs_results = <<>>

\* The call: a zero slot count is a ZeroDivisionError at line 435.
calc_qty_symbol(r) ==
    IF r.num_available_lots = 0
    THEN [raised |-> TRUE, qty |-> Null]
    ELSE [raised |-> FALSE,
          qty |-> CalcQty(r.fake_balance, r.num_available_lots, r.price,
                          r.symbol_wallet_balance, r.info)]

ResolveQty ==
    /\ Len(rs_results) < MaxEvaluations
    /\ rs_results' = Append(rs_results, calc_qty_symbol(rs_input))
    /\ UNCHANGED <<core_vars, gateway_vars, agent_vars, ledger_vars,
                   balance_vars, rs_input>>

\* ------------------------------------------- ledger statements alone
\* create_lot and delete_lot run on a cursor and committed, whatever the
\* table holds: the statement goes through and the function returns None,
\* or the database raises and nothing is committed.
NoCall == [op |-> "", symbol |-> "", raised |-> FALSE, returned |-> <<>>]

LedgerAtRest ==
    /\ db_call = NoCall
    /\ db_calls = 0

ledger_frame == <<gateway_vars, agent_vars, resolver_vars, balance_vars,
                  lot_size_filter,
                  workers, crashes, ctl_vars,
                  history_lots, ex_vars, mq_vars, pc, loc, outcome>>

CallCreateLot(symbol, qty, price) ==
    /\ db_calls < MaxLedgerCalls
    /\ db_calls' = db_calls + 1
    /\ \E ok \in BOOLEAN :
         /\ active_lots' = IF ok
                           THEN create_lot(active_lots, symbol, qty, price)
                           ELSE active_lots
         /\ db_call' = [op |-> "create_lot", symbol |-> symbol,
                        raised |-> ~ok, returned |-> <<>>]
    /\ UNCHANGED ledger_frame

CallDeleteLot(symbol) ==
    /\ db_calls < MaxLedgerCalls
    /\ db_calls' = db_calls + 1
    /\ \E ok \in BOOLEAN :
         /\ active_lots' = IF ok THEN delete_lot(active_lots, symbol)
                           ELSE active_lots
         /\ db_call' = [op |-> "delete_lot", symbol |-> symbol,
                        raised |-> ~ok, returned |-> <<>>]
    /\ UNCHANGED ledger_frame

\* ------------------------------------------- trade execution gateway
\* BybitTradingTool of the agent pipeline, in its two files.  bybit_tools.py
\* asks for the leverage "1"; trading_tools.py asks for self.leverage, an
\* attribute the class does not declare: whether the object has it depends
\* on how the tool base class treats the constructor's extra arguments.
Tool(file, has_leverage) == [file |-> file, has_leverage |-> has_leverage]
Tools ==
    {Tool("bybit_tools", TRUE), Tool("trading_tools", TRUE),
     Tool("trading_tools", FALSE)}
Leverages == {"1", "5"}
Sides == {"Buy", "Sell"}
OrderQtys == {100}
NoArgs == [symbol |-> "", side |-> "", qty |-> 0]
NoResult == [success |-> FALSE, error |-> "none"]

\* The leverage the tool asks the exchange for.
RequestedLeverage(tool) == "1"

\* What set_leverage can end with: the exchange refuses with code 110043
\* when the leverage asked for is the one it holds; otherwise it sets it, or
\* the request fails for another reason; reading a missing self.leverage
\* raises before any request is made.
SetLeverageResponses(tool, current) ==
    IF ~tool.has_leverage THEN {"AttributeError"}
    ELSE IF current = RequestedLeverage(tool) THEN {"110043", "10001"}
    ELSE {"ok", "10001"}

\* A _set_leverage for which only a request without error succeeds.
LeverageSuccessStrict(response) == response = "ok"

\* _set_leverage: success when the request went through or the exception
\* text holds '110043'.
LeverageSuccess(response) == response \in {"ok", "110043"}

GatewayAtRest ==
    /\ gw_pc = "idle"
    /\ gw_args = NoArgs
    /\ gw_response = "none"
    /\ gw_requests = <<>>
    /\ gw_result = NoResult
    /\ gw_calls = 0

\* _place_order(symbol, side, qty) is called.
CallPlaceOrder(symbol, side, qty) ==
    /\ gw_pc = "idle"
    /\ gw_calls' = gw_calls + 1
    /\ gw_args' = [symbol |-> symbol, side |-> side, qty |-> qty]
    /\ gw_response' = "none"
    /\ gw_pc' = "set_leverage"
    /\ UNCHANGED <<trading_vars, gw_tool, gw_leverage, gw_requests, gw_result>>

\* leverage_result = await self._set_leverage(symbol), and the return of
\* _place_order when it did not succeed.
SetLeverage ==
    /\ gw_pc = "set_leverage"
    /\ \E response \in SetLeverageResponses(gw_tool, gw_leverage[gw_args.symbol]) :
         /\ gw_response' = response
         /\ gw_requests' =
               IF response = "AttributeError" THEN gw_requests
               ELSE Append(gw_requests,
                           [op |-> "set_leverage", symbol |-> gw_args.symbol,
                            side |-> "", qty |-> 0, response |-> response])
         /\ gw_leverage' =
               IF response = "ok"
               THEN [gw_leverage EXCEPT ![gw_args.symbol] =
                                           RequestedLeverage(gw_tool)]
               ELSE gw_leverage
         /\ IF LeverageSuccess(response)
            THEN gw_pc' = "place_order" /\ UNCHANGED <<gw_result, gw_args>>
            ELSE /\ gw_pc' = "idle"
                 /\ gw_args' = NoArgs
                 /\ gw_result' = [success |-> FALSE,
                                  error |-> "Failed to set leverage"]
    /\ UNCHANGED <<trading_vars, agent_vars, gw_tool, gw_calls>>

\* self.client.place_order(...) and the OrderResult built from its answer:
\* the exchange fills the order or refuses it, and the answer of a filled
\* order has the fields OrderResult reads or lacks one.
GatewayPlaceOrder ==
    /\ gw_pc = "place_order"
    /\ \E filled \in BOOLEAN, parsed \in BOOLEAN :
         /\ gw_requests' =
               Append(gw_requests,
                      [op |-> "place_order", symbol |-> gw_args.symbol,
                       side |-> gw_args.side, qty |-> gw_args.qty,
                       response |-> IF filled THEN "filled" ELSE "10001"])
         /\ gw_result' = IF filled /\ parsed
                         THEN [success |-> TRUE, error |-> "none"]
                         ELSE [success |-> FALSE, error |-> "place_order"]
    /\ gw_pc' = "idle"
    /\ gw_args' = NoArgs
    /\ UNCHANGED <<trading_vars, agent_vars, gw_tool, gw_leverage, gw_response,
                   gw_calls>>

\* ------------------------------------------------------- trading agent
\* TradingAgent.execute_trade and _execute_order_with_retry
\* (trading_agent.py).  _execute_order_with_retry is only called with the
\* default of max_retries, MaxRetries.
AgentAtRest ==
    /\ ta_pc = "idle"
    /\ ta_order = NoArgs
    /\ ta_retries = 0
    /\ ta_outcomes = <<>>
    /\ ta_callbacks = 0
    /\ ta_status = "none"
    /\ ta_trades = 0

\* An agent built without an execution_callback.
ExecutionCallbackNone == FALSE

\* The agent is built with an execution_callback.
ExecutionCallback == TRUE

\* execute_trade up to the retry loop: an agent that is not active, a
\* market price that cannot be read or has moved by more than 1%, a failed
\* validation and any exception end the trade before an order is tried.
ExecuteTrade(symbol, side, qty) ==
    /\ ta_pc = "idle"
    /\ ta_trades < MaxTrades
    /\ ta_trades' = ta_trades + 1
    /\ ta_retries' = 0
    /\ ta_outcomes' = <<>>
    /\ ta_callbacks' = 0
    /\ \E passed \in BOOLEAN :
         IF passed
         THEN /\ ta_pc' = "retry_loop"
              /\ ta_order' = [symbol |-> symbol, side |-> side, qty |-> qty]
              /\ ta_status' = "running"
         ELSE /\ ta_pc' = "idle"
              /\ ta_order' = NoArgs
              /\ ta_status' = "returned"
    /\ UNCHANGED <<trading_vars, gateway_vars>>

\* while retries < max_retries.
LoopCondition(retries, max_retries) == retries < max_retries

\* A loop that goes round again after every failed attempt.
RetryAgainAlways(retries, max_retries) == TRUE

\* if retries < max_retries: warn, sleep and go round again.
RetryAgain(retries, max_retries) == retries < max_retries

\* A failed attempt: retries += 1, then another round or the failure
\* result, with which execute_trade logs and returns.
AfterFailure(how) ==
    /\ ta_retries' = ta_retries + 1
    /\ ta_outcomes' = Append(ta_outcomes, how)
    /\ IF RetryAgain(ta_retries + 1, MaxRetries)
       THEN ta_pc' = "retry_loop" /\ UNCHANGED <<ta_order, ta_status>>
       ELSE ta_pc' = "idle" /\ ta_order' = NoArgs /\ ta_status' = "failed"
    /\ UNCHANGED <<ta_callbacks, ta_trades>>

\* One round of the loop: the call of the tool raises, or reaches the
\* tool's _place_order.  A loop left through its condition returns None,
\* on which execute_trade's execution_result.get raises into its own
\* except clause.
Attempt ==
    /\ ta_pc = "retry_loop"
    /\ IF LoopCondition(ta_retries, MaxRetries)
       THEN \E raises \in BOOLEAN :
              IF raises
              THEN /\ AfterFailure("exception")
                   /\ UNCHANGED <<trading_vars, gateway_vars>>
              ELSE /\ CallPlaceOrder(ta_order.symbol, ta_order.side,
                                     ta_order.qty)
                   /\ ta_pc' = "awaiting"
                   /\ UNCHANGED <<ta_order, ta_retries, ta_outcomes,
                                  ta_callbacks, ta_status, ta_trades>>
       ELSE /\ ta_pc' = "idle"
            /\ ta_order' = NoArgs
            /\ ta_status' = "error"
            /\ UNCHANGED <<trading_vars, gateway_vars, ta_retries,
                           ta_outcomes, ta_callbacks, ta_trades>>

\* The tool's result: success leaves the loop at once.
AttemptReturns ==
    /\ ta_pc = "awaiting"
    /\ gw_pc = "idle"
    /\ IF gw_result.success
       THEN /\ ta_outcomes' = Append(ta_outcomes, "success")
            /\ ta_pc' = "notify"
            /\ UNCHANGED <<ta_order, ta_retries, ta_callbacks, ta_status,
                           ta_trades>>
       ELSE AfterFailure("error")
    /\ UNCHANGED <<trading_vars, gateway_vars>>

\* Update state and notify: the callback, when there is one, is awaited
\* once.
Notify ==
    /\ ta_pc = "notify"
    /\ ta_callbacks' = IF ExecutionCallback THEN ta_callbacks + 1
                       ELSE ta_callbacks
    /\ ta_status' = "success"
    /\ ta_pc' = "idle"
    /\ ta_order' = NoArgs
    /\ UNCHANGED <<trading_vars, gateway_vars, ta_retries, ta_outcomes,
                   ta_trades>>

\* ------------------------------------------------ balance control agent
\* BalanceControlAgent's buy and sell handlers around trading_callback,
\* which is TradingAgent.execute_trade (balance_control_agent.py of
\* trading-system/agents and of agents).
BalanceAtRest ==
    /\ bc_pc = "idle"
    /\ bc_signal = NoArgs
    /\ bc_calls = 0
    /\ bc_returned = "none"
    /\ bc_records = <<>>

\* The handler up to the callback: the buy's checks of status, limits and
\* quantity, the sell's lookup of the lot; a check that fails returns.
ProcessSignal(symbol, side, qty) ==
    /\ bc_pc = "idle"
    /\ bc_calls < MaxTrades
    /\ bc_signal' = [symbol |-> symbol, side |-> side, qty |-> qty]
    /\ \E passed \in BOOLEAN :
         IF passed
         THEN bc_pc' = "trade" /\ bc_calls' = bc_calls + 1
         ELSE UNCHANGED <<bc_pc, bc_calls>>
    /\ UNCHANGED <<core_vars, ledger_vars, resolver_vars, gateway_vars,
                   agent_vars, bc_returned, bc_records>>

\* What await self.trading_callback(trade_signal) gives back: execute_trade
\* has no return value on any path and catches every exception itself.
ReturnValue(status) == "None"

Record(op, signal) == [op |-> op, symbol |-> signal.symbol]

\* The writes after the callback: the lot and its history row for a buy,
\* the deletion and the history row for a sell; the writes may fail.
RecordTransaction ==
    /\ bc_pc = "trade"
    /\ ta_trades = bc_calls
    /\ ta_pc = "idle"
    /\ bc_pc' = "idle"
    /\ bc_returned' = ReturnValue(ta_status)
    /\ \E ok \in BOOLEAN :
         bc_records' =
            IF ~ok THEN bc_records
            ELSE bc_records \o
                 << Record(IF bc_signal.side = "Buy" THEN "create_lot"
                           ELSE "delete_lot", bc_signal),
                    Record("create_history_lot", bc_signal) >>
    /\ UNCHANGED <<core_vars, ledger_vars, resolver_vars, gateway_vars,
                   agent_vars, bc_signal, bc_calls>>

\* ---------------------------------------------------------- specification
InitDecisions(consumers, calls) ==
    /\ workers = consumers
    /\ crashes = 0
    /\ operator_calls = calls
    /\ http = NoResponse
    /\ active_lots = <<>>
    /\ history_lots = <<>>
    /\ orders = <<>>
    /\ queue = <<>>
    /\ published = 0
    /\ msg = [w \in Workers |-> NoMsg]
    /\ unacked = [w \in Workers |-> FALSE]
    /\ pc = [w \in Workers |-> "idle"]
    /\ loc = [w \in Workers |-> NoLocals]
    /\ outcome = [w \in Workers |-> "none"]

\* The management service as it starts, an exchange wallet of 50 USDT.
InitTrading(consumers, calls) ==
    /\ InitDecisions(consumers, calls)
    /\ app_state = [price_limit |-> InitPriceLimit, fake_balance |-> 0,
                    num_available_lots |-> 0,
                    enable_trading_system |-> "disable"]
    /\ real_balance = 5000
    /\ lot_size_filter = LotSizeFilter

\* The trading service does not run the agents' exchange tool.
InitState(consumers, calls) ==
    /\ InitTrading(consumers, calls)
    /\ gw_tool = Tool("bybit_tools", TRUE)
    /\ gw_leverage = [s \in Symbols |-> "1"]
    /\ GatewayAtRest
    /\ AgentAtRest
    /\ LedgerAtRest
    /\ BalanceAtRest
    /\ ResolverAtRest

\* One consumer (section 5 of the design: a single logical consumer).
Init == InitState({1}, MaxOperatorCalls)
\* Two consumers of the same queue.
InitConc == InitState(Workers, MaxOperatorCallsConc)

Operator ==
    \E key \in {Token} :
       \/ \E v \in Statuses : api_set_system_status(v, key)
       \/ \E v \in FakeBalances : api_set_fake_balance(v, key)
       \/ \E v \in PriceLimits : api_set_price_limit(v, key)
       \/ \E v \in NumLots : api_set_num_available_lots(v, key)

Step(w) ==
    \/ Receive(w)
    \/ Validate(w)
    \/ PriceGate(w)
    \/ GetOldBalance(w)
    \/ GetSystemStatus(w)
    \/ GetSymbolsActiveLots(w)
    \/ GetNumAvailableLots(w)
    \/ GetCountLots(w)
    \/ GetCoinInfo(w)
    \/ CalcGetFakeBalance(w)
    \/ CalcQtySymbol(w)
    \/ GetQtySymbol(w)
    \/ PlaceOrder(w)
    \/ CommitBuy(w)
    \/ CommitSell(w)
    \/ GetNewBalance(w)
    \/ GetOldFakeBalance(w)
    \/ SetFakeBalance(w)
    \/ Ack(w)
    \/ Nack(w)

Next ==
    \/ Operator
    \/ \E sig \in Signals : Publish(sig)
    \/ \E w \in Workers : Step(w)

Spec == Init /\ [][Next]_vars
SpecConc == InitConc /\ [][Next]_vars

\* One consumer that may die at any point of a decision.
InitCrash == InitState({1}, MaxOperatorCallsCrash)
CrashSignals ==
    {sig \in Signals : sig.symbol # "BUSDT"
                          /\ sig.price_buy # 400 /\ sig.price_sell # 400}
NextCrash ==
    \/ Operator
    \/ \E sig \in CrashSignals : Publish(sig)
    \/ \E w \in Workers : Step(w)
    \/ \E w \in Workers : Crash(w)
SpecCrash == InitCrash /\ [][NextCrash]_vars

\* The exchange tool on its own: any of the two files, any leverage held
\* by the exchange when the tool starts.
InitGateway ==
    /\ InitTrading({}, 0)
    /\ gw_tool \in Tools
    /\ gw_leverage \in [Symbols -> Leverages]
    /\ GatewayAtRest
    /\ AgentAtRest
    /\ LedgerAtRest
    /\ BalanceAtRest
    /\ ResolverAtRest
NextGateway ==
    \/ /\ gw_calls < MaxGatewayCalls
       /\ \E symbol \in Symbols, side \in Sides, qty \in OrderQtys :
             CallPlaceOrder(symbol, side, qty)
       /\ UNCHANGED agent_vars
    \/ SetLeverage
    \/ GatewayPlaceOrder
SpecGateway == InitGateway /\ [][NextGateway]_vars

\* The trading agent driving the exchange tool.
InitAgent == InitGateway
NextAgent ==
    \/ \E symbol \in Symbols, side \in Sides, qty \in OrderQtys :
          ExecuteTrade(symbol, side, qty)
    \/ Attempt
    \/ AttemptReturns
    \/ Notify
    \/ SetLeverage
    \/ GatewayPlaceOrder
SpecAgent == InitAgent /\ [][NextAgent]_vars

\* The balance control agent, the trading agent and the exchange tool.
InitPipeline == InitState({}, 0)
NextPipeline ==
    \/ \E symbol \in Symbols, side \in Sides, qty \in OrderQtys :
          ProcessSignal(symbol, side, qty)
    \/ /\ bc_pc = "trade"
       /\ ta_trades < bc_calls
       /\ ExecuteTrade(bc_signal.symbol, bc_signal.side, bc_signal.qty)
    \/ Attempt
    \/ AttemptReturns
    \/ Notify
    \/ SetLeverage
    \/ GatewayPlaceOrder
    \/ RecordTransaction
SpecPipeline == InitPipeline /\ [][NextPipeline]_vars

\* The control state and its clients, with the secret or another key.
InitControl == InitState({}, MaxControlCalls)
NextControl ==
    \E key \in ApiKeys :
       \/ \E v \in Statuses : api_set_system_status(v, key)
       \/ \E v \in FakeBalances : api_set_fake_balance(v, key)
       \/ \E v \in PriceLimits : api_set_price_limit(v, key)
       \/ \E v \in NumLots : api_set_num_available_lots(v, key)
       \/ api_get_system_status(key)
       \/ api_get_fake_balance(key)
       \/ api_get_price_limit(key)
       \/ api_get_num_available_lots(key)
SpecControl == InitControl /\ [][NextControl]_vars

\* A consumer under a control state the operator has set to a capital of
\* 1000 USDT and 5 slots, with trading enabled and a price limit of 100,
\* and an exchange that reports ScenarioFilter.
ScenarioSignals ==
    { Signal(TRUE, "AUSDT", 10000, Null, 600),
      Signal(TRUE, "AUSDT", Null, 10000, 600),
      Signal(FALSE, "", Null, Null, Null) }
InitScenario ==
    /\ InitDecisions({1}, 0)
    /\ app_state = [price_limit |-> 10000, fake_balance |-> 100000,
                    num_available_lots |-> 5,
                    enable_trading_system |-> "enable"]
    /\ real_balance = 100000
    /\ lot_size_filter = ScenarioFilter
    /\ gw_tool = Tool("bybit_tools", TRUE)
    /\ gw_leverage = [s \in Symbols |-> "1"]
    /\ GatewayAtRest
    /\ AgentAtRest
    /\ LedgerAtRest
    /\ BalanceAtRest
    /\ ResolverAtRest
NextScenario ==
    \/ \E sig \in ScenarioSignals : Publish(sig)
    \/ \E w \in Workers : Step(w)
SpecScenario == InitScenario /\ [][NextScenario]_vars

\* The quantity resolver on any readings with a positive price.
InitResolver ==
    /\ InitTrading({}, 0)
    /\ gw_tool = Tool("bybit_tools", TRUE)
    /\ gw_leverage = [s \in Symbols |-> "1"]
    /\ GatewayAtRest
    /\ AgentAtRest
    /\ LedgerAtRest
    /\ BalanceAtRest
    /\ rs_input \in {Readings(b, n, p, h, f) :
                        b \in ResolverCapitals, n \in ResolverLots,
                        p \in ResolverPrices, h \in CoinBalances,
                        f \in ResolverFilters}
    /\ rs_results = <<>>
NextResolver == ResolveQty
SpecResolver == InitResolver /\ [][NextResolver]_vars

\* The ledger statements on their own, from an empty table.
InitLedger == InitState({}, 0)
NextLedger ==
    \/ \E symbol \in Symbols, qty \in OrderQtys, price \in Prices :
          CallCreateLot(symbol, qty, price)
    \/ \E symbol \in Symbols : CallDeleteLot(symbol)
SpecLedger == InitLedger /\ [][NextLedger]_vars

\* The operator has given capital and one slot and now only switches the
\* system status; set_system_status stores whatever string the path carries.
StoredStatuses == Statuses \cup {"pause", "Enable"}
StatusSignals ==
    {sig \in BuySignals \cup SellSignals :
        sig.symbol = "AUSDT" /\ sig.price_buy # 400 /\ sig.price_sell # 400}
InitStatus ==
    /\ InitDecisions({1}, MaxStatusCalls)
    /\ app_state = [price_limit |-> InitPriceLimit, fake_balance |-> 800,
                    num_available_lots |-> 1,
                    enable_trading_system |-> "disable"]
    /\ real_balance = 5000
    /\ lot_size_filter = LotSizeFilter
    /\ gw_tool = Tool("bybit_tools", TRUE)
    /\ gw_leverage = [s \in Symbols |-> "1"]
    /\ GatewayAtRest
    /\ AgentAtRest
    /\ LedgerAtRest
    /\ BalanceAtRest
    /\ ResolverAtRest
NextStatus ==
    \/ \E v \in StoredStatuses : api_set_system_status(v, Token)
    \/ \E sig \in StatusSignals : Publish(sig)
    \/ \E w \in Workers : Step(w)
SpecStatus == InitStatus /\ [][NextStatus]_vars

\* ================================================================ claims
WorkerStep(w) == pc'[w] # pc[w]
OpenSymbols == SymbolsOf(active_lots)
OrdersOf(s) == LET Test(o) == o.symbol = s IN SelectSeq(orders, Test)

\* C1: with a single consumer, after any sequence of processed signals every
\* symbol has at most one row in active_lots.
C1_AtMostOneLotPerSymbol ==
    \A s \in Symbols : CountRows(active_lots, s) <= 1

\* C1 witness: a second Buy for a symbol that has its open lot was processed.
C1_Witness ==
    \E w \in workers :
       /\ pc[w] = "ack" /\ outcome[w] = "already_bought"
       /\ CountRows(active_lots, loc[w].symbol) = 1

\* C2: with two consumers, two concurrent Buy decisions for one symbol never
\* both open a lot: no two rows of active_lots carry the same symbol.
C2_ConcurrentBuysOpenOneLot ==
    \A i, j \in 1..Len(active_lots) :
       active_lots[i].symbol = active_lots[j].symbol => i = j

\* C3: the orders executed for a symbol alternate Buy, Sell, Buy, ...,
\* starting with Buy.
C3_OrdersAlternate ==
    \A s \in Symbols :
       \A i \in 1..Len(OrdersOf(s)) :
          OrdersOf(s)[i].action = IF i % 2 = 1 THEN "buy" ELSE "sell"

\* C4: when order placement fails the decision ends at once with the ledger
\* and the capital untouched, and no step of a decision that has placed no
\* order writes the ledger or the capital.
C4_FailedTradeNoMutation ==
    [][\A w \in Workers :
         /\ (pc[w] = "place_order" /\ WorkerStep(w) /\ orders' = orders)
               => /\ pc'[w] = "ack"
                  /\ outcome'[w] = "error_trade"
                  /\ UNCHANGED db_vars
                  /\ app_state' = app_state
         /\ (WorkerStep(w) /\ ~loc[w].placed)
               => /\ UNCHANGED db_vars
                  /\ app_state'.fake_balance = app_state.fake_balance]_vars

\* C4 witness: a decision ended because place_order failed for a computed,
\* positive quantity.
C4_Witness ==
    \E w \in workers :
       /\ pc[w] = "ack" /\ outcome[w] = "error_trade"
       /\ loc[w].qty > 0 /\ ~loc[w].placed

\* C5: at the end of a decision, a row for its symbol has been inserted iff
\* its Buy order executed, and deleted iff its Sell order executed.
C5_LotIffOrderExecuted ==
    \A w \in workers :
       pc[w] = "ack" =>
          /\ (loc[w].placed /\ loc[w].action = "buy")
                <=> (outcome[w] = "done_buy" /\ loc[w].symbol \in OpenSymbols)
          /\ (loc[w].placed /\ loc[w].action = "sell")
                <=> (outcome[w] \in {"done_sell", "error_capital"}
                     /\ loc[w].symbol \notin OpenSymbols)

\* C6: between decisions the history holds exactly one row per executed
\* order, with that order's action, symbol, qty and price.
C6_OneHistoryRowPerTrade ==
    (\A w \in workers : pc[w] \notin {"commit_buy", "commit_sell"})
        => history_lots = orders

\* C7: a step of the trading core changes fake_balance only as the last step
\* of a Sell decision whose order was executed.
C7_CapitalWrittenOnlyBySell ==
    [][(pc' # pc /\ app_state'.fake_balance # app_state.fake_balance)
          => \E w \in workers :
                /\ pc[w] = "set_fake_balance" /\ WorkerStep(w)
                /\ loc[w].action = "sell" /\ loc[w].placed]_vars

\* C7 witness: a Sell decision has written the capital.
C7_Witness ==
    \E w \in workers :
       /\ pc[w] = "ack" /\ outcome[w] = "done_sell"
       /\ app_state.fake_balance > 800

\* C8: the Sell's capital write adds exactly the realized balance delta to
\* the value fake_balance has right before the write.
C8_CapitalMovesByDelta ==
    [][\A w \in Workers :
         (pc[w] = "set_fake_balance" /\ WorkerStep(w)
            /\ outcome'[w] = "done_sell")
           => app_state'.fake_balance =
                 app_state.fake_balance
                   + (loc[w].new_balance - loc[w].old_balance)]_vars

\* C9: a decision that fetched the status 'disable' places no order and
\* writes no ledger row; it ends skipped.
C9_DisabledSkips ==
    [][\A w \in Workers :
         (loc[w].system_status = "disable" /\ WorkerStep(w))
           => /\ UNCHANGED <<db_vars, ex_vars>>
              /\ pc'[w] \in {"ack", "idle"}
              /\ pc'[w] = "ack" => outcome'[w] \in {"inactive", "error_ledger"}]_vars

\* C9 witness: a Buy below the price limit was skipped under 'disable'
\* although capital and slots would have given a quantity.
C9_Witness ==
    \E w \in workers :
       /\ pc[w] = "ack" /\ outcome[w] = "inactive"
       /\ loc[w].system_status = "disable" /\ loc[w].action = "buy"
       /\ app_state.fake_balance = 800 /\ app_state.num_available_lots >= 1

\* C10: a Buy above the price limit is skipped without an order, and a Sell
\* for a symbol with an open lot is never skipped for its price.
C10_PriceGateBuyOnly ==
    \A w \in workers :
       outcome[w] = "high_price" =>
          /\ ~loc[w].placed
          /\ ~(loc[w].action = "sell" /\ loc[w].symbol \in OpenSymbols)

\* A step of worker w that runs make_trade's place_order call.
OrderSent(w) == pc[w] = "place_order" /\ WorkerStep(w)

\* C11: a Buy decision for a symbol that has an open lot places no order and
\* leaves active_lots and history_lots as they are, and at the ledger gate
\* (lines 75-83) it ends skipped.
C11_BuyWithOpenLotSkipped ==
    [][\A w \in Workers :
         (WorkerStep(w) /\ loc[w].action = "buy"
            /\ loc[w].symbol \in OpenSymbols)
           => /\ ~OrderSent(w)
              /\ UNCHANGED <<db_vars, ex_vars>>
              /\ pc[w] = "count_lots"
                   => /\ pc'[w] = "ack"
                      /\ outcome'[w] \in {"already_bought", "lots_exceeded",
                                          "error_ledger"}]_vars

\* C11 witness: a Buy found its symbol among the open lots although a slot
\* was free, and was skipped.
C11_Witness ==
    \E w \in workers :
       /\ pc[w] = "ack" /\ outcome[w] = "already_bought"
       /\ loc[w].action = "buy" /\ loc[w].symbol \in OpenSymbols
       /\ Len(active_lots) < app_state.num_available_lots

\* C12: a Sell decision for a symbol without an open lot places no order and
\* changes neither active_lots, history_lots nor fake_balance; its read of
\* the open lots (lines 70, 97-101) ends it skipped.
C12_SellWithoutLotSkipped ==
    [][\A w \in Workers :
         (WorkerStep(w) /\ loc[w].action = "sell" /\ ~loc[w].placed
            /\ loc[w].symbol \notin OpenSymbols)
           => /\ ~OrderSent(w)
              /\ UNCHANGED <<db_vars, ex_vars>>
              /\ app_state'.fake_balance = app_state.fake_balance
              /\ pc[w] = "symbols_active_lots"
                   => /\ pc'[w] = "ack"
                      /\ outcome'[w] \in {"not_bought", "inactive",
                                          "error_ledger"}]_vars

\* C12 witness: a Sell was skipped for want of a lot while selling was
\* allowed.
C12_Witness ==
    \E w \in workers :
       /\ pc[w] = "ack" /\ outcome[w] = "not_bought"
       /\ loc[w].action = "sell" /\ loc[w].symbol \notin OpenSymbols
       /\ loc[w].system_status \in {"enable", "sell"}

\* C13: on the Buy path a resolved quantity of 0 ends the decision without
\* an order request to the exchange.
C13_ZeroQtyNoOrderSent ==
    [][\A w \in Workers :
         (loc[w].action = "buy" /\ loc[w].qty = 0) => ~OrderSent(w)]_vars

\* C14: the quantity of an executed Sell order is the qty of the row
\* active_lots holds for its symbol when the order is placed.
C14_SellQtyIsLotQty ==
    [][\A w \in Workers :
         (OrderSent(w) /\ loc[w].action = "sell" /\ orders' # orders)
           => /\ Len(orders') = Len(orders) + 1
              /\ \E i \in 1..Len(active_lots) :
                    /\ active_lots[i].symbol = orders'[Len(orders')].symbol
                    /\ active_lots[i].qty = orders'[Len(orders')].qty
              /\ \A i \in 1..Len(active_lots) :
                    active_lots[i].symbol = loc[w].symbol
                       => active_lots[i].qty = orders'[Len(orders')].qty]_vars

\* C14 witness: a Sell was executed for a lot whose quantity is neither the
\* instrument's minimum nor its maximum, under a control state that would
\* resolve another quantity.
C14_Witness ==
    \E w \in workers :
       /\ pc[w] = "commit_sell" /\ loc[w].placed
       /\ loc[w].qty = 200
       /\ orders[Len(orders)] = OrderRow("sell", loc[w].symbol, 200, loc[w].price)
       /\ app_state.num_available_lots = 1

\* The signal of a delivery is older than its action's staleness threshold.
StaleSignal(m) ==
    /\ m.json_ok /\ m.symbol # "" /\ m.age # Null
    /\ \/ m.price_buy \notin {Null, 0} /\ m.age > BoundActualSignalSec
       \/ m.price_buy \in {Null, 0} /\ m.age > SellBoundSec

\* C15: the decision on a stale signal (a Buy older than 30 minutes, a Sell
\* older than 24 hours) consists of the validation step alone, which ends it
\* rejected: no step of it calls the control state store or the exchange or
\* touches the ledger.
C15_StaleRejectedBeforeAnyCall ==
    [][\A w \in Workers :
         (StaleSignal(msg[w].body) /\ WorkerStep(w))
           => /\ pc[w] \in {"validate", "ack"}
              /\ pc[w] = "validate"
                   => pc'[w] = "ack" /\ outcome'[w] = "stale"
              /\ UNCHANGED <<ctl_vars, db_vars, ex_vars>>]_vars

\* C15 witness: a Buy signal 31 minutes old was rejected as stale.
C15_Witness ==
    \E w \in workers :
       /\ pc[w] = "ack" /\ outcome[w] = "stale"
       /\ msg[w].body.age = BoundActualSignalSec + 60
       /\ msg[w].body.price_buy # Null

\* How a finished process_trade can have ended (Done, Rejected or Skipped).
TerminalOutcomes ==
    {"invalid", "stale", "high_price", "error_control", "error_ledger",
     "not_bought", "inactive", "lots_exceeded", "already_bought",
     "error_trade", "done_buy", "done_sell", "error_capital"}

\* C16: while a decision is in progress its message is unacknowledged; the
\* broker drops the message only at the basic_ack that follows a finished
\* process_trade; a decision abandoned on the way (a crash, or a nack) has
\* its message back at the head of the queue.
C16_AckOnlyAfterTerminal ==
    [][\A w \in Workers :
         /\ pc[w] # "idle" => unacked[w]
         /\ (unacked[w] /\ ~unacked'[w] /\ queue' = queue)
               => pc[w] = "ack" /\ outcome[w] \in TerminalOutcomes
         /\ (pc[w] \notin {"idle", "ack"} /\ pc'[w] = "idle")
               => queue' # <<>> /\ Head(queue') = msg[w]]_vars

\* C16 witness: the consumer died after its Buy order was executed and
\* before the lot was written, and the message is in the queue again.
C16_Witness ==
    /\ crashes = 1
    /\ pc[1] = "idle"
    /\ queue # <<>>
    /\ Len(orders) = 1 /\ active_lots = <<>>
    /\ Head(queue).body.symbol = orders[1].symbol

\* A signal process_trade cannot act on.
MalformedSignal(m) ==
    \/ ~m.json_ok
    \/ m.symbol = ""
    \/ m.age = Null
    \/ m.price_buy \in {Null, 0} /\ m.price_sell = Null

\* C17: the message of a malformed or stale signal is never negatively
\* acknowledged (requeued); its decision ends rejected and is acknowledged.
C17_MalformedNotRequeued ==
    \A w \in workers :
       (msg[w] # NoMsg
          /\ (MalformedSignal(msg[w].body) \/ StaleSignal(msg[w].body)))
         => pc[w] # "nack"

\* The statements that fetch control state: all of them, and those that run
\* before make_trade places the order.
ControlFetches ==
    {"price_limit", "system_status", "num_available_lots",
     "calc_fake_balance", "calc_qty", "old_fake_balance"}
ControlFetchesBeforeOrder == ControlFetches \ {"old_fake_balance"}
FailureOutcomes == {"raised", "error_control", "error_trade", "error_capital"}

\* C18 as stated: a decision that ends at a failed control state fetch has
\* placed no order and written no ledger row.
C18_ControlFailureRejects ==
    [][\A w \in Workers :
         (pc[w] \in ControlFetches /\ WorkerStep(w)
            /\ pc'[w] \in {"ack", "nack"} /\ outcome'[w] \in FailureOutcomes)
           => ~loc[w].placed]_vars

\* C18, amended: a control state fetch that runs before the order (price
\* limit, system status, slot count, the resolver's capital and slot count)
\* either ends the decision, with no order placed and no ledger row written,
\* or hands on the value the store holds; no value is assumed for a failed
\* fetch.  (The capital fetch of line 118 runs after the Sell's order and
\* ledger write.)
C18_ControlFailureBeforeOrderRejects ==
    [][\A w \in Workers :
         (pc[w] \in ControlFetchesBeforeOrder /\ WorkerStep(w))
           => /\ ~loc[w].placed
              /\ UNCHANGED <<db_vars, ex_vars>>
              /\ pc'[w] \notin {"ack", "nack", "idle"}
                   => /\ pc[w] = "system_status"
                         => loc'[w].system_status =
                               app_state.enable_trading_system
                      /\ pc[w] = "num_available_lots"
                         => loc'[w].num_available_lots =
                               app_state.num_available_lots
                      /\ pc[w] = "calc_fake_balance"
                         => loc'[w].fake_balance = app_state.fake_balance]_vars

\* C18 witness: the status fetch of a Buy failed while the store said
\* 'enable' and capital and slots were set; the decision ended there.
C18_Witness ==
    \E w \in workers :
       /\ pc[w] = "ack" /\ outcome[w] = "error_control"
       /\ loc[w].action = "buy" /\ loc[w].system_status = ""
       /\ app_state.enable_trading_system = "enable"
       /\ app_state.fake_balance > 0 /\ app_state.num_available_lots > 0

\* C19: a decision whose order was executed and whose ledger write failed
\* does not end as an acknowledged outcome.
C19_LedgerFaultNotSwallowed ==
    \A w \in workers :
       (loc[w].placed /\ outcome[w] = "error_ledger") => pc[w] # "ack"

\* The last request the exchange received.
LastRequest(requests) == requests[Len(requests)]

\* C20: the tool sends a place_order request only directly after a
\* set_leverage request for the same symbol that went through or was
\* answered with 110043; such a set_leverage is followed by the order, and a
\* _set_leverage that failed otherwise makes _place_order return failure
\* with no order request.
C20_OrderOnlyAfterLeverage ==
    [][/\ (gw_requests' # gw_requests
             /\ LastRequest(gw_requests').op = "place_order")
          => /\ gw_requests # <<>>
             /\ LastRequest(gw_requests).op = "set_leverage"
             /\ LastRequest(gw_requests).symbol
                   = LastRequest(gw_requests').symbol
             /\ LastRequest(gw_requests).response \in {"ok", "110043"}
       /\ (gw_pc = "set_leverage" /\ gw_pc' # gw_pc)
          => IF gw_response' \in {"ok", "110043"}
             THEN gw_pc' = "place_order"
             ELSE /\ gw_pc' = "idle"
                  /\ ~gw_result'.success
                  /\ gw_result'.error = "Failed to set leverage"
                  /\ \A i \in 1..Len(gw_requests') :
                        i > Len(gw_requests)
                           => gw_requests'[i].op # "place_order"]_vars

\* C20 witness: an order was filled after the exchange answered the
\* set_leverage with 110043, and another _place_order ended at a failed
\* set_leverage.
C20_Witness ==
    /\ Len(gw_requests) = 3
    /\ gw_requests[1].response = "110043"
    /\ gw_requests[2].op = "place_order" /\ gw_requests[2].response = "filled"
    /\ gw_requests[3].op = "set_leverage" /\ gw_requests[3].response = "10001"
    /\ gw_pc = "idle" /\ ~gw_result.success

\* Place_order attempts the running trade has made so far.
Attempts == Len(ta_outcomes) + (IF ta_pc = "awaiting" THEN 1 ELSE 0)
FailedAttempts == {"error", "exception"}

\* C21: _execute_order_with_retry makes at most max_retries (3) place_order
\* attempts, makes none after a successful one, and when every attempt has
\* failed it ends with the failure result after exactly max_retries
\* attempts, whatever mix of error results and exceptions they produced.
C21_RetryCeiling ==
    /\ Attempts <= MaxRetries
    /\ \A i \in 1..Len(ta_outcomes) :
          ta_outcomes[i] = "success" => i = Len(ta_outcomes) /\ Attempts = i
    /\ ta_status = "failed" <=>
          /\ ta_pc = "idle"
          /\ Len(ta_outcomes) = MaxRetries
          /\ \A i \in 1..MaxRetries : ta_outcomes[i] \in FailedAttempts
    /\ ta_status # "error"

\* The loop gave up after an error result, an exception and an error
\* result.
C21_Witness ==
    /\ ta_status = "failed"
    /\ ta_outcomes = <<"error", "exception", "error">>

\* The running or last trade failed on attempts 1 and 2 and succeeded on
\* attempt 3.
ThirdAttemptSucceeded ==
    /\ Len(ta_outcomes) = 3
    /\ ta_outcomes[1] \in FailedAttempts
    /\ ta_outcomes[2] \in FailedAttempts
    /\ ta_outcomes[3] = "success"

LedgerCall(op) == db_calls' = db_calls + 1 /\ db_call'.op = op

\* C23: create_lot for a symbol that already has an open lot fails with an
\* error and leaves active_lots unchanged.
C23_DuplicateLotRefused ==
    [][LedgerCall("create_lot") /\ db_call'.symbol \in OpenSymbols
          => db_call'.raised /\ active_lots' = active_lots]_vars

\* C24: delete_lot for a symbol without an open lot fails with an error and
\* changes nothing; for a symbol with an open lot it removes the symbol's
\* row and returns that row's quantity and price.
C24_DeleteChecksLot ==
    [][LedgerCall("delete_lot") =>
          IF db_call'.symbol \in OpenSymbols
          THEN \/ db_call'.raised /\ active_lots' = active_lots
               \/ /\ ~db_call'.raised
                  /\ active_lots' = delete_lot(active_lots, db_call'.symbol)
                  /\ \E i \in 1..Len(active_lots) :
                        /\ active_lots[i].symbol = db_call'.symbol
                        /\ db_call'.returned =
                              <<active_lots[i].qty, active_lots[i].price>>
          ELSE db_call'.raised /\ active_lots' = active_lots]_vars

\* This step is a control-state request, answered.
ControlRequest == operator_calls' = operator_calls - 1
Rejected(response) == response.status # 200 /\ response.data = <<>>

\* C25: a control-state get or set presented with a key other than the
\* secret is rejected, it returns no value, and it leaves the four control
\* values as they were.
C25_WrongKeyRejected ==
    [][ControlRequest /\ http'.api_key # Token
          => Rejected(http') /\ app_state' = app_state]_vars

\* A request with a wrong key was rejected after the operator had enabled
\* trading.
C25_Witness ==
    /\ http.api_key = "wrong"
    /\ Rejected(http)
    /\ app_state.enable_trading_system = "enable"

\* C26: a control-state get or set whose key is not the secret is answered
\* with status 403.
C26_AuthFailureIs403 ==
    [][ControlRequest /\ http'.api_key # Token => http'.status = 403]_vars

\* The held balance exceeds the raw per-slot quantity
\* fake_balance / num_available_lots / price.
HeldExceedsRaw(r) ==
    r.symbol_wallet_balance * r.num_available_lots * r.price
        > QtyScale * r.fake_balance

\* C27: for a positive price and at least one slot the resolved quantity is
\* within 0..max_qty, and it is 0 when the held balance exceeds the raw
\* per-slot quantity.
C27_QtyWithinRange ==
    \A i \in 1..Len(rs_results) :
       rs_input.price > 0 /\ rs_input.num_available_lots >= 1 =>
          /\ ~rs_results[i].raised
          /\ 0 <= rs_results[i].qty
          /\ rs_results[i].qty <= rs_input.info.maxMktOrderQty
          /\ HeldExceedsRaw(rs_input) => rs_results[i].qty = 0

\* A quantity resolved to 0 for a coin of which more is held than a slot
\* of a positive capital buys.
C27_Witness ==
    /\ Len(rs_results) >= 1
    /\ rs_input.fake_balance > 0
    /\ rs_input.num_available_lots >= 1
    /\ HeldExceedsRaw(rs_input)
    /\ rs_results[1].qty = 0

\* The value of a decimal numeral with at most two decimals, in hundredths.
DigitValue(c) ==
    CASE c = "0" -> 0 [] c = "1" -> 1 [] c = "2" -> 2 [] c = "3" -> 3
      [] c = "4" -> 4 [] c = "5" -> 5 [] c = "6" -> 6 [] c = "7" -> 7
      [] c = "8" -> 8 [] c = "9" -> 9
RECURSIVE DigitsValue(_)
DigitsValue(s) ==
    IF s = <<>> THEN 0
    ELSE 10 * DigitsValue(SubSeq(s, 1, Len(s) - 1)) + DigitValue(s[Len(s)])
Hundredths(numeral) ==
    LET dots == {i \in 1..Len(numeral) : numeral[i] = "."}
    IN  IF dots = {} THEN QtyScale * DigitsValue(numeral)
        ELSE LET dot == CHOOSE i \in dots : TRUE
                 frac == SubSeq(numeral, dot + 1, Len(numeral))
             IN  QtyScale * DigitsValue(SubSeq(numeral, 1, dot - 1))
                 + DigitsValue(frac) * Pow10(2 - Len(frac))

\* C28: a resolved quantity other than 0 is within min_qty..max_qty, is
\* worth at least min_notional and is a multiple of qty_step.
C28_NonZeroQtyConforms ==
    \A i \in 1..Len(rs_results) :
       ~rs_results[i].raised /\ rs_results[i].qty # 0 =>
          /\ rs_input.info.minOrderQty <= rs_results[i].qty
          /\ rs_results[i].qty <= rs_input.info.maxMktOrderQty
          /\ rs_results[i].qty * rs_input.price
                >= rs_input.info.minNotionalValue * QtyScale * QtyScale
          /\ rs_results[i].qty % Hundredths(rs_input.info.qtyStep) = 0

ScenarioA(w) ==
    /\ loc[w].action = "buy"
    /\ loc[w].price = 10000
    /\ loc[w].coin_balance = 0
    /\ loc[w].fake_balance = 100000
    /\ app_state.num_available_lots = 5
    /\ lot_size_filter = ScenarioFilter

\* C30: with a capital of 1000, 5 slots, price 100, nothing held and limits
\* (min_qty 0.01, max_qty 100, step 0.01, min_notional 10) the resolved
\* quantity is 2.0, the order placed is a Buy of 2.0, and the Buy's write
\* adds exactly the row {symbol, 2.0, 100} to active_lots and exactly one
\* row to history_lots.
C30_ScenarioA ==
    [][\A w \in workers :
          ScenarioA(w) /\ WorkerStep(w) =>
             /\ pc[w] = "calc_qty" /\ pc'[w] = "place_order"
                   => loc'[w].qty = 200
             /\ pc[w] = "place_order" /\ pc'[w] = "commit_buy"
                   => orders' = Append(orders,
                                  OrderRow("buy", loc[w].symbol, 200, 10000))
             /\ pc[w] = "commit_buy" /\ outcome'[w] = "done_buy"
                   => /\ active_lots' =
                            Append(active_lots,
                                   LotRow(loc[w].symbol, 200, 10000))
                      /\ history_lots' =
                            Append(history_lots,
                                   HistoryRow("buy", loc[w].symbol, 200, 10000))
      ]_vars

\* The Buy of Scenario A has been decided, executed and written.
C30_Witness ==
    /\ outcome[1] = "done_buy"
    /\ orders = <<OrderRow("buy", "AUSDT", 200, 10000)>>
    /\ active_lots = <<LotRow("AUSDT", 200, 10000)>>
    /\ history_lots = <<HistoryRow("buy", "AUSDT", 200, 10000)>>

\* C31: a Buy is skipped when active_lots already holds max_open_lots rows or
\* more, and a Buy that opens a lot leaves at most as many rows as the slot
\* count it read, hence at most the current slot count unless that has been
\* lowered since.
C31_OpenLotsWithinSlots ==
    [][\A w \in workers :
          /\ pc[w] = "count_lots" /\ WorkerStep(w)
                /\ Len(active_lots) >= loc[w].num_available_lots
                /\ outcome'[w] \notin {"error_ledger"}
                => outcome'[w] = "lots_exceeded" /\ pc'[w] = "ack"
          /\ pc[w] = "commit_buy" /\ Len(active_lots') > Len(active_lots)
                => /\ Len(active_lots') <= loc[w].num_available_lots
                   /\ app_state.num_available_lots >= loc[w].num_available_lots
                         => Len(active_lots') <= app_state.num_available_lots
      ]_vars

\* With one slot and one open lot, a Buy of another symbol was skipped.
C31_Witness ==
    /\ app_state.num_available_lots = 1
    /\ Len(active_lots) = 1
    /\ outcome[1] = "lots_exceeded"

\* The positions of a Sell decision after its lot is deleted and its history
\* row committed.
AfterSellCommit == {"new_balance", "old_fake_balance", "set_fake_balance"}

\* C32: a Sell decision that has deleted its lot and committed its history
\* row ends only after the realized balance delta has been applied to the
\* deployable capital, whether or not a balance lookup or a control-state
\* read or write failed on the way.
C32_SellAlwaysAdjustsCapital ==
    [][\A w \in workers :
          pc[w] \in AfterSellCommit /\ pc'[w] \in {"ack", "nack"} =>
             /\ pc[w] = "set_fake_balance"
             /\ app_state'.fake_balance =
                   NewFakeBalance(loc[w].old_fake_balance, loc[w].new_balance,
                                  loc[w].old_balance)]_vars

\* C33: when execute_trade has ended with the retry budget exhausted, its
\* caller is given something other than a plain return, and the balance
\* control agent writes nothing to the ledger for that signal.
C33_FailedTradeSurfacedAndUnrecorded ==
    [][bc_pc = "trade" /\ bc_pc' = "idle" /\ ta_status = "failed"
          => bc_returned' # "None" /\ bc_records' = bc_records]_vars

\* raw = fake_balance / num_available_lots / price - held balance, as the
\* fraction RawNum(r) / RawDen(r) of a hundredth of a coin.
RawNum(r) ==
    QtyScale * r.fake_balance
    - r.symbol_wallet_balance * r.num_available_lots * r.price
RawDen(r) == r.num_available_lots * r.price

\* C34: a resolved quantity that is neither 0 nor the cap max_qty is a
\* multiple of qty_step and at most raw, and what it costs is at most the
\* per-slot capital fake_balance / num_available_lots.
C34_RoundsDown ==
    \A i \in 1..Len(rs_results) :
       LET qty == rs_results[i].qty
       IN  /\ ~rs_results[i].raised
           /\ qty # 0
           /\ qty # rs_input.info.maxMktOrderQty
           => /\ qty % Hundredths(rs_input.info.qtyStep) = 0
              /\ qty * RawDen(rs_input) <= RawNum(rs_input)
              /\ qty * rs_input.price * rs_input.num_available_lots
                    <= QtyScale * rs_input.fake_balance

\* raw rounded as the resolver rounds it: to the decimals of qty_step, ties
\* to the even neighbour.
SteppedQty(r) ==
    LET unit == Pow10(2 - Precision(r.info.qtyStep))
    IN  unit * RoundHalfEven(RawNum(r), RawDen(r) * unit)
TooSmall(r) ==
    /\ SteppedQty(r) * r.price < r.info.minNotionalValue * QtyScale * QtyScale
    /\ SteppedQty(r) < r.info.minOrderQty

\* C35: when the step-rounded quantity is worth less than min_notional and
\* is below min_qty the resolved quantity is 0; otherwise a step-rounded
\* quantity above max_qty is resolved to max_qty.
C35_ZeroOrClamp ==
    \A i \in 1..Len(rs_results) :
       ~rs_results[i].raised =>
          /\ TooSmall(rs_input) => rs_results[i].qty = 0
          /\ ~TooSmall(rs_input)
                /\ SteppedQty(rs_input) > rs_input.info.maxMktOrderQty
                => rs_results[i].qty = rs_input.info.maxMktOrderQty

\* A negative step-rounded quantity was resolved to 0.
C35_Witness ==
    /\ Len(rs_results) >= 1
    /\ ~rs_results[1].raised
    /\ SteppedQty(rs_input) < 0
    /\ TooSmall(rs_input)
    /\ rs_results[1].qty = 0

\* Rows of history_lots for symbol s with the given action.
HistoryCount(action, s) ==
    Cardinality({i \in 1..Len(history_lots) :
                    history_lots[i].symbol = s /\ history_lots[i].action = action})

\* C36: with one consumer, for every symbol the 'buy' rows of history_lots
\* minus its 'sell' rows are as many as the symbol's open lots.
C36_LedgerMatchesHistory ==
    \A s \in Symbols :
       HistoryCount("buy", s) - HistoryCount("sell", s) = CountRows(active_lots, s)

\* A lot was opened and closed again, no lot of the symbol is left open.
C36_Witness ==
    /\ HistoryCount("buy", "AUSDT") = 1
    /\ HistoryCount("sell", "AUSDT") = 1
    /\ CountRows(active_lots, "AUSDT") = 0

\* ------------------------------------------------------------------ C37
\* The statements of process_trade that stand before its try block.
BeforeTry == {"validate", "price_limit", "old_balance", "system_status"}

LedgerOrOrderWritten ==
    \/ orders' # orders
    \/ active_lots' # active_lots
    \/ history_lots' # history_lots

\* C38: the control state starts as 'disable', capital 0, slots 0, price
\* limit 3.0; while no set request has been served no order is placed and no
\* ledger row written; an order or a row is the step of a decision that read
\* 'enable' or 'sell', a decision reads the status the store holds, and the
\* stored status changes only in a set request served with the right key.
C38_FailSafeStart ==
    /\ app_state = [price_limit |-> 300, fake_balance |-> 0,
                    num_available_lots |-> 0,
                    enable_trading_system |-> "disable"]
    /\ [](operator_calls = MaxOperatorCalls
             => orders = <<>> /\ active_lots = <<>> /\ history_lots = <<>>)
    /\ [][/\ LedgerOrOrderWritten
               => \E w \in workers :
                     /\ WorkerStep(w)
                     /\ loc[w].system_status \in {"enable", "sell"}
          /\ \A w \in workers :
                loc'[w].system_status \notin {"", loc[w].system_status}
                   => loc'[w].system_status = app_state.enable_trading_system
          /\ app_state'.enable_trading_system # app_state.enable_trading_system
               => /\ ControlRequest
                  /\ http'.api_key = Token
                  /\ http'.status = 200]_vars

\* A buy signal under the price limit was decided and skipped before any
\* set request was served.
C38_Witness ==
    /\ operator_calls = MaxOperatorCalls
    /\ pc[1] = "ack"
    /\ outcome[1] = "inactive"
    /\ loc[1].action = "buy"
    /\ loc[1].system_status = "disable"
    /\ orders = <<>>

\* ------------------------------------------------------------------ C39
\* C39: an executed Buy was decided under 'enable' and an executed Sell under
\* 'enable' or 'sell'; a decision that read any other stored string, and a
\* Buy that read 'sell', ends as inactive without an order or a ledger row;
\* a Sell that read 'sell' for a symbol with an open lot is not skipped: it
\* goes on to the lot's quantity and the order.
C39_StatusThreeValued ==
    [][\A w \in workers :
         /\ (OrderSent(w) /\ orders' # orders)
               => /\ loc[w].action = "buy" => loc[w].system_status = "enable"
                  /\ loc[w].action = "sell"
                        => loc[w].system_status \in {"enable", "sell"}
         /\ (/\ pc[w] = "symbols_active_lots"
             /\ WorkerStep(w)
             /\ \/ loc[w].system_status \notin {"enable", "sell"}
                \/ loc[w].action = "buy" /\ loc[w].system_status = "sell")
               => /\ pc'[w] = "ack"
                  /\ outcome'[w] \in {"inactive", "error_ledger"}
                  /\ UNCHANGED <<orders, active_lots, history_lots>>
         /\ (/\ pc[w] = "symbols_active_lots"
             /\ WorkerStep(w)
             /\ loc[w].action = "sell"
             /\ loc[w].system_status = "sell"
             /\ loc[w].symbol \in OpenSymbols)
               => \/ pc'[w] = "qty_symbol"
                  \/ pc'[w] = "ack" /\ outcome'[w] = "error_ledger"]_vars

\* A lot was bought under 'enable'; the Sell for it read the stored string
\* 'Enable' and was skipped, the lot stays open.
C39_Witness ==
    /\ Len(orders) = 1
    /\ orders[1].action = "buy"
    /\ pc[1] = "ack"
    /\ outcome[1] = "inactive"
    /\ loc[1].action = "sell"
    /\ loc[1].system_status = "Enable"
    /\ loc[1].symbol \in OpenSymbols

\* ------------------------------------------------------------------ C40
\* C40: whenever the resolver of a Buy reads the slot count for its division
\* (the step at line 433-436), the count the store holds is at least 1.
C40_SlotCountPositiveAtDivision ==
    [][\A w \in workers :
         (pc[w] = "calc_qty" /\ loc[w].action = "buy" /\ WorkerStep(w))
            => app_state.num_available_lots >= 1]_vars
====
